---- MODULE Spec2Model ----
(***************************************************************************)
(* Model of speechrate.py: get_context (context-window extraction around a *)
(* reference token of a Buckeye .words file) and get_speechrate.           *)
(*                                                                         *)
(* A Python string is a sequence of one-character strings.  A float is an  *)
(* integer number of hundredths of a second (all time stamps of the model  *)
(* have at most two decimals, so sums and differences are exact).  A       *)
(* quotient is kept as the pair numerator/denominator.                     *)
(***************************************************************************)
EXTENDS Integers, Sequences, FiniteSets, TLC

VARIABLES lines, ref_pos, span, result, rate, pc

vars == <<lines, ref_pos, span, result, rate, pc>>

(***************************************************************************)
(* Bounds of the model.                                                    *)
(***************************************************************************)
MaxTokens == 6
MaxSpan == 2
MaxDist == 2
MaxArgLen == 2

(***************************************************************************)
(* Python built-ins used by the code.                                      *)
(***************************************************************************)
Whitespace == {" ", "\n", "\t"}

Digits == <<"0", "1", "2", "3", "4", "5", "6", "7", "8", "9">>

IsDigit(c) == \E i \in 1..10 : Digits[i] = c

DigitVal(c) == (CHOOSE i \in 1..10 : Digits[i] = c) - 1

Min2(a, b) == IF a < b THEN a ELSE b

Max2(a, b) == IF a > b THEN a ELSE b

\* list[start:stop]; a negative index counts from the end, both are clamped
PySlice(s, start, stop) ==
    LET n  == Len(s)
        a0 == IF start < 0 THEN start + n ELSE start
        b0 == IF stop < 0 THEN stop + n ELSE stop
        a  == Max2(0, Min2(n, a0))
        b  == Max2(0, Min2(n, b0))
    IN  IF a < b THEN SubSeq(s, a + 1, b) ELSE <<>>

\* list[1:]
DropFirst(s) == IF s = <<>> THEN <<>> ELSE Tail(s)

\* the walk taken in file order: the [::-1] is missing
Reverse_none(s) == s

\* list[::-1]
Reverse(s) == [i \in 1..Len(s) |-> s[Len(s) + 1 - i]]

RECURSIVE LStrip(_)
LStrip(s) == IF s # <<>> /\ Head(s) \in Whitespace THEN LStrip(Tail(s)) ELSE s

RECURSIVE RStrip(_)
RStrip(s) ==
    IF s # <<>> /\ s[Len(s)] \in Whitespace
    THEN RStrip(SubSeq(s, 1, Len(s) - 1))
    ELSE s

\* str.strip()
Strip(s) == RStrip(LStrip(s))

\* position of the first blank of s, 0 when there is none
FirstBlank(s) ==
    IF \E i \in 1..Len(s) : s[i] = " "
    THEN CHOOSE i \in 1..Len(s) : s[i] = " " /\ \A j \in 1..(i - 1) : s[j] # " "
    ELSE 0

\* str.split(" ", maxsplit)
RECURSIVE Split(_, _)
Split(s, maxsplit) ==
    LET p == FirstBlank(s)
    IN  IF maxsplit = 0 \/ p = 0
        THEN <<s>>
        ELSE <<SubSeq(s, 1, p - 1)>> \o Split(SubSeq(s, p + 1, Len(s)), maxsplit - 1)

RECURSIVE DigitsVal(_)
DigitsVal(s) ==
    IF s = <<>> THEN 0 ELSE 10 * DigitsVal(SubSeq(s, 1, Len(s) - 1)) + DigitVal(s[Len(s)])

AllDigits(s) == \A i \in 1..Len(s) : IsDigit(s[i])

\* float(str) for the literals d+, d+.d and d+.dd, in hundredths; any other
\* text of the model's vocabulary is not a number (ValueError)
Float(str) ==
    LET s   == Strip(str)
        dot == IF \E i \in 1..Len(s) : s[i] = "."
               THEN CHOOSE i \in 1..Len(s) : s[i] = "."
               ELSE 0
        ip  == IF dot = 0 THEN s ELSE SubSeq(s, 1, dot - 1)
        fp  == IF dot = 0 THEN <<>> ELSE SubSeq(s, dot + 1, Len(s))
        ok  == ip # <<>> /\ AllDigits(ip) /\ AllDigits(fp) /\ Len(fp) <= 2
    IN  IF ~ok THEN [err |-> "ValueError", v |-> 0]
        ELSE [err |-> "none",
              v   |-> 100 * DigitsVal(ip)
                      + (IF Len(fp) = 0 THEN 0
                         ELSE IF Len(fp) = 1 THEN 10 * DigitsVal(fp)
                         ELSE DigitsVal(fp))]

Lower == <<"a", "b", "c", "d", "e", "h", "i", "l", "s", "t">>

Caps == <<"A", "B", "C", "D", "E", "H", "I", "L", "S", "T">>

\* str.upper() on the alphabet of the model
UpperChar(c) ==
    IF \E i \in 1..Len(Lower) : Lower[i] = c
    THEN Caps[CHOOSE i \in 1..Len(Lower) : Lower[i] = c]
    ELSE c

Upper(s) == [i \in 1..Len(s) |-> UpperChar(s[i])]

StartsWith(s, prefix) ==
    Len(prefix) <= Len(s) /\ SubSeq(s, 1, Len(prefix)) = prefix

BREAK_LABELS ==
    << <<"<", "S", "I", "L", ">">>,
       <<"<", "L", "A", "U", "G", "H", ">">>,
       <<"<", "I", "V", "E", "R", ">">>,
       <<"<", "U", "N", "K", "N", "O", "W", "N", ">">>,
       <<"<", "V", "O", "C", "N", "O", "I", "S", "E", ">">>,
       <<"<", "N", "O", "I", "S", "E", ">">>,
       <<"{", "B", "_", "T", "R", "A", "N", "S", "}">>,
       <<"{", "E", "_", "T", "R", "A", "N", "S", "}">> >>

\* token["word"].upper().startswith(BREAK_LABELS)
IsBreak(word) ==
    LET u == Upper(word)
    IN  \E i \in 1..Len(BREAK_LABELS) : StartsWith(u, BREAK_LABELS[i])

(***************************************************************************)
(* get_context                                                             *)
(***************************************************************************)
Hash == <<"#">>

HashNL == <<"#", "\n">>

Contains(seq, x) == \E i \in 1..Len(seq) : seq[i] = x

\* list.index(x), 0-based
IndexOf(seq, x) ==
    (CHOOSE i \in 1..Len(seq) : seq[i] = x /\ \A j \in 1..(i - 1) : seq[j] # x) - 1

\* the header is skipped and the reference position rebased
Normalize(ls, rp) ==
    LET header_pos == IF Contains(ls, Hash) THEN IndexOf(ls, Hash)
                      ELSE IF Contains(ls, HashNL) THEN IndexOf(ls, HashNL)
                      ELSE 0
        rest == IF Contains(ls, Hash) \/ Contains(ls, HashNL)
                THEN PySlice(ls, header_pos + 1, Len(ls))
                ELSE ls
    IN  [lines |-> rest, ref_pos |-> rp - header_pos - 1]

\* one more position of headroom than the code reserves
L_start_wide(rp, sp) == Max2(0, rp - sp - 3)

L_start(rp, sp) == Max2(0, rp - sp - 2)

R_end(ls, rp, sp) == Min2(Len(ls), rp + sp + 1)

\* [s.strip().split(" ", 1) for s in window]
RECURSIVE Window(_)
Window(win) ==
    IF win = <<>> THEN <<>>
    ELSE <<Split(Strip(Head(win)), 1)>> \o Window(Tail(win))

\* the label read from the first field after the time: [0] instead of [1]
TokenRecord_first(parts) ==
    IF Len(parts) # 2 THEN [err |-> "ValueError", t |-> 0, word |-> <<>>]
    ELSE LET f   == Float(parts[1])
             sub == Split(parts[2], 2)
         IN  IF f.err # "none" THEN [err |-> "ValueError", t |-> 0, word |-> <<>>]
             ELSE [err |-> "none", t |-> f.v, word |-> sub[1]]

\* {"t": float(time), "word": trans.split(" ", 2)[1]} for one (time, trans)
TokenRecord(parts) ==
    IF Len(parts) # 2 THEN [err |-> "ValueError", t |-> 0, word |-> <<>>]
    ELSE LET f   == Float(parts[1])
             sub == Split(parts[2], 2)
         IN  IF f.err # "none" THEN [err |-> "ValueError", t |-> 0, word |-> <<>>]
             ELSE IF Len(sub) < 2 THEN [err |-> "IndexError", t |-> 0, word |-> <<>>]
             ELSE [err |-> "none", t |-> f.v, word |-> sub[2]]

RECURSIVE Dat(_)
Dat(win) ==
    IF win = <<>> THEN <<>>
    ELSE <<TokenRecord(Head(win))>> \o Dat(Tail(win))

\* the exception of the first element that cannot be built, "none" otherwise
DatError(dat) ==
    IF \E i \in 1..Len(dat) : dat[i].err # "none"
    THEN dat[CHOOSE i \in 1..Len(dat) :
                 dat[i].err # "none" /\ \A j \in 1..(i - 1) : dat[j].err = "none"].err
    ELSE "none"

\* the distance taken with the operands swapped
RECURSIVE LeftWalk_swapped(_, _)
LeftWalk_swapped(tokens, start_time) ==
    IF tokens = <<>> THEN <<>>
    ELSE <<Head(tokens).t - start_time>>
         \o (IF IsBreak(Head(tokens).word) THEN <<>>
             ELSE LeftWalk_swapped(Tail(tokens), start_time))

\* the loop over the left window: append, then stop on a break label
RECURSIVE LeftWalk(_, _)
LeftWalk(tokens, start_time) ==
    IF tokens = <<>> THEN <<>>
    ELSE <<start_time - Head(tokens).t>>
         \o (IF IsBreak(Head(tokens).word) THEN <<>>
             ELSE LeftWalk(Tail(tokens), start_time))

\* the right loop in the order of the left one: append, then test the label
RECURSIVE RightWalk_append_first(_, _)
RightWalk_append_first(tokens, end_time) ==
    IF tokens = <<>> THEN <<>>
    ELSE <<Head(tokens).t - end_time>>
         \o (IF IsBreak(Head(tokens).word) THEN <<>>
             ELSE RightWalk_append_first(Tail(tokens), end_time))

\* the loop over the right window: stop on a break label, else append
RECURSIVE RightWalk(_, _)
RightWalk(tokens, end_time) ==
    IF tokens = <<>> THEN <<>>
    ELSE IF IsBreak(Head(tokens).word) THEN <<>>
    ELSE <<Head(tokens).t - end_time>> \o RightWalk(Tail(tokens), end_time)

Raise(e) == [status |-> e, left |-> <<>>, right |-> <<>>]

get_context(ls0, rp0, sp) ==
    LET norm    == Normalize(ls0, rp0)
        ls      == norm.lines
        rp      == norm.ref_pos
        l_start == L_start(rp, sp)
        r_end   == R_end(ls, rp, sp)
        l_win   == Window(PySlice(ls, l_start, rp))
        l_dat   == Dat(l_win)
        l_dist  == IF l_win = <<>> THEN <<>>
                   ELSE LeftWalk(Reverse(DropFirst(l_dat)), l_dat[Len(l_dat)].t)
        r_win   == Window(PySlice(ls, rp, r_end))
        r_dat   == Dat(r_win)
        l_err   == DatError(l_dat)
        r_err   == DatError(r_dat)
    IN  IF l_err # "none" THEN Raise(l_err)
        ELSE IF r_err # "none" THEN Raise(r_err)
        ELSE IF r_dat = <<>> THEN Raise("IndexError")
        ELSE [status |-> "ok",
              left   |-> DropFirst(l_dist),
              right  |-> RightWalk(DropFirst(r_dat), r_dat[1].t)]

(***************************************************************************)
(* get_speechrate                                                          *)
(***************************************************************************)
RECURSIVE MaxOf(_)
MaxOf(s) ==
    IF Len(s) = 1 THEN s[1]
    ELSE LET m == MaxOf(Tail(s)) IN IF s[1] >= m THEN s[1] ELSE m

NoRate == [status |-> "None", num |-> 0, den |-> 1]

Quotient(n, d) ==
    IF d = 0 THEN [status |-> "ZeroDivisionError", num |-> 0, den |-> 1]
    ELSE [status |-> "value", num |-> n, den |-> d]

\* both windows present: divided by the size of the left window only
get_speechrate_left_count(l_dist, r_dist) ==
    IF l_dist # <<>> /\ r_dist # <<>>
    THEN Quotient(MaxOf(l_dist) + MaxOf(r_dist), Len(l_dist))
    ELSE IF r_dist # <<>> /\ ~(l_dist # <<>>)
    THEN Quotient(MaxOf(r_dist), Len(r_dist))
    ELSE IF l_dist # <<>>
    THEN Quotient(MaxOf(l_dist), Len(l_dist))
    ELSE NoRate

get_speechrate(l_dist, r_dist) ==
    IF l_dist # <<>> /\ r_dist # <<>>
    THEN Quotient(MaxOf(l_dist) + MaxOf(r_dist), Len(l_dist) + Len(r_dist))
    ELSE IF r_dist # <<>> /\ ~(l_dist # <<>>)
    THEN Quotient(MaxOf(r_dist), Len(r_dist))
    ELSE IF l_dist # <<>>
    THEN Quotient(MaxOf(l_dist), Len(l_dist))
    ELSE NoRate

(***************************************************************************)
(* The caller: it reads the lines of one .words file, calls get_context    *)
(* for a reference position and a span, and passes the two lists to        *)
(* get_speechrate.                                                         *)
(***************************************************************************)
Str3(a, b, c) == a \o <<" ">> \o b \o <<" ">> \o c

Str2(a, b) == a \o <<" ">> \o b

Colour == <<"1", "2", "2">>

The == <<"t", "h", "e", ";">>

Cat == <<"c", "a", "t">>

Sat == <<"s", "a", "t">>

Sil == <<"<", "S", "I", "L", ">">>

SilLower == <<"<", "s", "i", "l", ">", ";", " ", "S">>

HeaderLine == <<"h", "e", "a", "d", "e", "r">>

\* the text of a time stamp of k hundredths of a second
FormatTime(k) ==
    <<Digits[(k \div 100) + 1], ".", Digits[((k \div 10) % 10) + 1], Digits[(k % 10) + 1]>>

\* the token sequence of the end-to-end scenario, as given (time and label)
ScenarioLiteral ==
    << Str2(FormatTime(10), Sil), Str2(FormatTime(50), <<"t", "h", "e">>),
       Str2(FormatTime(90), Cat), Str2(FormatTime(130), Sat),
       Str2(FormatTime(180), Sil) >>

\* the same tokens in the layout of a .words file (time, colour, label)
ScenarioWords ==
    << Str3(FormatTime(10), Colour, Sil), Str3(FormatTime(50), Colour, <<"t", "h", "e">>),
       Str3(FormatTime(90), Colour, Cat), Str3(FormatTime(130), Colour, Sat),
       Str3(FormatTime(180), Colour, Sil) >>

\* three tokens whose end times go back and then stand still (not the
\* strictly increasing end times of a recording)
Unordered ==
    << Str3(FormatTime(90), Colour, The), Str3(FormatTime(50), Colour, The),
       Str3(FormatTime(50), Colour, The) >>

Headers == {<<>>, <<HeaderLine, Hash>>, <<HashNL>>}

Labels == {The, SilLower}

\* the step from one end time to the next, in hundredths
Deltas == {40}

\* the spans tried: the small ones, that of the scenario, and one that covers
\* a whole recording
Spans == (0..MaxSpan) \cup {5, MaxTokens}

NoResult == [status |-> "none", left |-> <<>>, right |-> <<>>]

\* the annotation lines read so far (the lines after the header)
Body == Normalize(lines, 0).lines

\* the time stamp of the last line read
LastTime ==
    IF Body = <<>> THEN 50 ELSE Float(Split(Strip(Body[Len(Body)]), 1)[1]).v

Eol == IF Contains(lines, HashNL) THEN <<"\n">> ELSE <<>>

Init ==
    /\ lines \in Headers \cup {ScenarioLiteral, ScenarioWords, Unordered}
    /\ ref_pos = 0
    /\ span = 0
    /\ result = NoResult
    /\ rate = NoRate
    /\ pc = "read"

ReadLine ==
    /\ pc = "read"
    /\ Len(Body) < MaxTokens
    /\ \E d \in Deltas, w \in Labels :
          /\ lines' = Append(lines, Str3(FormatTime(LastTime + d), Colour, w) \o Eol)
    /\ UNCHANGED <<ref_pos, span, result, rate, pc>>

CallGetContext ==
    /\ pc = "read"
    /\ lines # <<>>
    /\ \E r \in 0..Len(lines), s \in Spans :
          /\ ref_pos' = r
          /\ span' = s
          /\ result' = get_context(lines, r, s)
    /\ pc' = "called"
    /\ UNCHANGED <<lines, rate>>

CallGetSpeechrate ==
    /\ pc = "called"
    /\ result.status = "ok"
    /\ rate' = get_speechrate(result.left, result.right)
    /\ pc' = "rated"
    /\ UNCHANGED <<lines, ref_pos, span, result>>

Next == ReadLine \/ CallGetContext \/ CallGetSpeechrate

Spec == Init /\ [][Next]_vars

(***************************************************************************)
(* get_speechrate on its own, called with any two lists of numbers.        *)
(***************************************************************************)
RECURSIVE ListsUpTo(_)
ListsUpTo(n) ==
    IF n = 0 THEN {<<>>}
    ELSE ListsUpTo(n - 1)
         \cup {Append(l, x) : l \in {m \in ListsUpTo(n - 1) : Len(m) = n - 1},
                              x \in (-1)..MaxDist}

InitRate ==
    /\ lines = <<>>
    /\ ref_pos = 0
    /\ span = 0
    /\ \E l \in ListsUpTo(MaxArgLen), r \in ListsUpTo(MaxArgLen) :
          result = [status |-> "ok", left |-> l, right |-> r]
    /\ rate = NoRate
    /\ pc = "called"

NextRate == CallGetSpeechrate

SpecRate == InitRate /\ [][NextRate]_vars

(***************************************************************************)
(* Vocabulary of the properties.                                           *)
(***************************************************************************)
Called == pc \in {"called", "rated"} /\ lines # <<>>

Returned == Called /\ result.status = "ok"

HasHeader == Contains(lines, Hash) \/ Contains(lines, HashNL)

\* 0-based position of the header delimiter
HeaderPos == IF Contains(lines, Hash) THEN IndexOf(lines, Hash) ELSE IndexOf(lines, HashNL)

WellFormed(line) == TokenRecord(Split(Strip(line), 1)).err = "none"

TokenOf(line) == TokenRecord(Split(Strip(line), 1))

\* ref_pos is an index of lines and points at a well-formed annotation line
\* behind the header; every annotation line is well formed
ValidInput ==
    /\ ref_pos >= 0 /\ ref_pos < Len(lines)
    /\ HasHeader => ref_pos > HeaderPos
    /\ LET b == Body IN \A i \in 1..Len(b) : WellFormed(b[i])
    /\ span >= 0

\* the end times of the annotation lines, in file order
BodyTimes == LET d == Dat(Window(Body)) IN [i \in 1..Len(d) |-> d[i].t]

NonDecreasingTimes == LET t == BodyTimes IN \A i \in 1..(Len(t) - 1) : t[i] <= t[i + 1]

IncreasingTimes == LET t == BodyTimes IN \A i \in 1..(Len(t) - 1) : t[i] < t[i + 1]

Increasing(s) == \A i \in 1..(Len(s) - 1) : s[i] < s[i + 1]

Decreasing(s) == \A i \in 1..(Len(s) - 1) : s[i] > s[i + 1]

IsBreakLine(line) == WellFormed(line) /\ IsBreak(TokenOf(line).word)

(***************************************************************************)
(* Properties.                                                             *)
(***************************************************************************)

\* C1: header normalization is transparent: with a header delimiter at
\* position h and ref_pos behind it, the call returns what the call on the
\* post-header sublist with ref_pos - h - 1 returns; without a delimiter
\* ref_pos is not rebased.
C1_HeaderTransparent ==
    Called =>
       /\ (HasHeader /\ ref_pos > HeaderPos /\ ref_pos < Len(lines))
             => result = get_context(PySlice(lines, HeaderPos + 1, Len(lines)),
                                     ref_pos - HeaderPos - 1, span)
       /\ ~HasHeader => Normalize(lines, ref_pos).ref_pos = ref_pos

\* C2: for valid inputs every returned pair has at most span elements on
\* each side.
C2_LengthBound ==
    (Returned /\ ValidInput) => Len(result.left) <= span /\ Len(result.right) <= span

C2_Witness ==
    Returned /\ ValidInput /\ span >= 1 /\ Len(result.left) = span

\* the largest element of a non-empty list, stated without the recursion
IsMaxOf(m, s) ==
    /\ \E i \in 1..Len(s) : s[i] = m
    /\ \A i \in 1..Len(s) : s[i] <= m

\* the rate is the number n / d
IsQuotient(r, n, d) == r.status = "value" /\ r.den # 0 /\ r.num * d = n * r.den

\* C3: get_speechrate is total and is (max(left) + max(right)) / (len(left) +
\* len(right)) when both lists are non-empty, max / len of the non-empty list
\* when one is empty, and None exactly when both are empty.
C3_Rate ==
    pc = "rated" =>
       LET l == result.left
           r == result.right
       IN  /\ rate.status \in {"value", "None"}
           /\ (rate.status = "None") <=> (l = <<>> /\ r = <<>>)
           /\ (l # <<>> /\ r # <<>>) =>
                 \E i \in 1..Len(l), j \in 1..Len(r) :
                    /\ IsMaxOf(l[i], l) /\ IsMaxOf(r[j], r)
                    /\ IsQuotient(rate, l[i] + r[j], Len(l) + Len(r))
           /\ (l = <<>> /\ r # <<>>) =>
                 \E j \in 1..Len(r) : IsMaxOf(r[j], r) /\ IsQuotient(rate, r[j], Len(r))
           /\ (l # <<>> /\ r = <<>>) =>
                 \E i \in 1..Len(l) : IsMaxOf(l[i], l) /\ IsQuotient(rate, l[i], Len(l))

C3_Witness ==
    /\ pc = "rated"
    /\ Len(result.left) = 2 /\ Len(result.right) = 1
    /\ result.left[1] > result.left[2]
    /\ rate.status = "value"

\* C4: for valid inputs, a break label on the line before lines[ref_pos]
\* empties left, a break label on the line after it empties right.
C4_BreakNeighbour ==
    (Returned /\ ValidInput) =>
       /\ (ref_pos >= 1 /\ IsBreakLine(lines[ref_pos])) => result.left = <<>>
       /\ (ref_pos + 2 <= Len(lines) /\ IsBreakLine(lines[ref_pos + 2]))
             => result.right = <<>>

\* C5: for valid inputs, left is empty when ref_pos is the first token of the
\* post-header sequence and right is empty when it is the last, with or
\* without a header block.
C5_RecordingBoundary ==
    (Returned /\ ValidInput) =>
       /\ ref_pos = Len(lines) - Len(Body) => result.left = <<>>
       /\ ref_pos = Len(lines) - 1 => result.right = <<>>

\* C6: for valid inputs with non-decreasing end times every returned distance
\* is >= 0.
C6_NonNegative ==
    (Returned /\ ValidInput /\ NonDecreasingTimes) =>
       /\ \A i \in 1..Len(result.left) : result.left[i] >= 0
       /\ \A i \in 1..Len(result.right) : result.right[i] >= 0

C6_Witness ==
    /\ Returned /\ ValidInput /\ NonDecreasingTimes
    /\ result.left # <<>> /\ result.left[Len(result.left)] > 0
    /\ result.right # <<>> /\ result.right[1] > 0

\* C7: a reference position outside the post-header sequence after
\* normalization always fails with IndexError, for every span.
C7_OutOfRange ==
    Called =>
       LET n == Normalize(lines, ref_pos)
       IN  (n.ref_pos < 0 \/ n.ref_pos >= Len(n.lines)) => result.status = "IndexError"

C9_Order ==
    (Returned /\ ValidInput /\ IncreasingTimes) =>
       Decreasing(result.left) /\ Increasing(result.right)

\* C9 as amended: both lists are nearest token first, so the distances of
\* both are strictly increasing.
C9_NearestFirst ==
    (Returned /\ ValidInput /\ IncreasingTimes) =>
       Increasing(result.left) /\ Increasing(result.right)

C9_Witness ==
    Returned /\ ValidInput /\ IncreasingTimes /\ Len(result.left) >= 2

SetMax(S) == CHOOSE x \in S : \A y \in S : y <= x

SetMin(S) == CHOOSE x \in S : \A y \in S : x <= y

\* the parsed candidates of the slice [l_start, ref_pos), in file order
LeftCandidates ==
    LET n == Normalize(lines, ref_pos)
    IN  Dat(Window(PySlice(n.lines, L_start(n.ref_pos, span), n.ref_pos)))

\* the parsed slice [ref_pos, r_end): the reference token, then the candidates
RightSlice ==
    LET n == Normalize(lines, ref_pos)
    IN  Dat(Window(PySlice(n.lines, n.ref_pos, R_end(n.lines, n.ref_pos, span))))

\* positions of the candidates from..Len(dat) that carry a break label
BreaksFrom(dat, from) == {j \in from..Len(dat) : IsBreak(dat[j].word)}

\* C10: right holds exactly the distances of the tokens strictly between the
\* reference token and the first following break label (or the end of the
\* window), never the distance of a break token.  On the left the distance of
\* the nearest preceding break label, when it is not the immediate
\* predecessor, is kept as the last element and nothing earlier contributes;
\* the immediate predecessor and the earliest candidate of the slice
\* [l_start, ref_pos) never contribute.
C10_AsymmetricBreaks ==
    (Returned /\ ValidInput) =>
       LET cand    == LeftCandidates
           m       == Len(cand)
           lbreaks == BreaksFrom(cand, 2)
           first   == IF lbreaks = {} THEN 2 ELSE SetMax(lbreaks)
           rs      == RightSlice
           rbreaks == BreaksFrom(rs, 2)
           last    == IF rbreaks = {} THEN Len(rs) ELSE SetMin(rbreaks) - 1
       IN  /\ result.right = [i \in 1..(last - 1) |-> rs[i + 1].t - rs[1].t]
           /\ IF m <= 1 \/ m \in lbreaks
              THEN result.left = <<>>
              ELSE result.left = [i \in 1..(m - first) |-> cand[m].t - cand[m - i].t]

C10_Witness ==
    /\ Returned /\ ValidInput
    /\ LET cand    == LeftCandidates
           lbreaks == BreaksFrom(cand, 2)
       IN  lbreaks # {} /\ Len(cand) \notin lbreaks
    /\ result.left # <<>>
    /\ result.right # <<>> /\ BreaksFrom(RightSlice, 2) # {}

====
